---------------------------- MODULE Spec2Model ----------------------------
(***************************************************************************)
(* Model of tiny's command layer (crates/tiny/src/cmd.rs): run_cmd, the    *)
(* parser parse_cmd and the nine command handlers acting on the Vec of     *)
(* Clients ("Connection Set"); and of the tab bar entry of its TUI         *)
(* (crates/libtiny_tui/src/tab.rs): Tab::width and Tab::draw.              *)
(*                                                                         *)
(* A Rust &str is a sequence of characters.  A character is a TLA+ string; *)
(* "U3000" stands for the single character U+3000 (IDEOGRAPHIC SPACE),     *)
(* which is whitespace and takes three bytes in UTF-8.  Slices of a &str   *)
(* are taken at BYTE offsets, as the code does.                            *)
(* Option values: None is <<>>, Some(x) is <<x>>.                          *)
(***************************************************************************)
EXTENDS Integers, Sequences, FiniteSets, TLC

VARIABLES
    clients,    \* Vec<Client>: the Connection Set, records [id, serv]
    status,     \* "idle", "returned" after a call, "aborted" after a panic
    last,       \* the last run_cmd call: its inputs, the Connection Set
                \* before it, the calls it issued on the collaborators, and
                \* (prev) the /connect that ran just before it, if one did
    tab,        \* a Tab of the tab bar
    tb          \* the Termbox: the last Tab::draw call and the cells it changed

vars == <<clients, status, last, tab, tb>>

----------------------------------------------------------------------------
(* Bounds of the model *)

\* longest enumerated argument tail
MaxTail == 3

\* the model stops creating connections at this size of the Connection Set
MaxClients == 2

\* longest tab label, in characters
MaxLabel == 3

----------------------------------------------------------------------------
(* Characters and strings *)

None == <<>>

Some(x) == <<x>>

\* char::is_whitespace, on the characters of the model
is_whitespace(c) == c \in {" ", "U3000"}

\* char::len_utf8
len_utf8(c) == IF c = "U3000" THEN 3 ELSE 1

\* char::is_alphabetic, on the characters of the model
is_alphabetic(c) == c \in {"a", "b", "c", "d", "e", "f", "g", "h", "i", "j",
                           "k", "l", "m", "n", "o", "p", "q", "r", "s", "t",
                           "u", "v", "w", "x", "y", "z"}

\* byte offset of the k-th character of s (k = Len(s) + 1: the length in bytes)
RECURSIVE ByteOff(_, _)
ByteOff(s, k) == IF k <= 1 THEN 0 ELSE ByteOff(s, k - 1) + len_utf8(s[k - 1])

\* str::is_char_boundary
is_char_boundary(s, b) == \E k \in 1..(Len(s) + 1) : ByteOff(s, k) = b

\* &s[b..]: panics unless b is a character boundary of s
SliceFrom(s, b) ==
    IF is_char_boundary(s, b)
    THEN [panic |-> FALSE,
          val |-> SubSeq(s, (CHOOSE k \in 1..(Len(s) + 1) : ByteOff(s, k) = b), Len(s))]
    ELSE [panic |-> TRUE, val |-> <<>>]

\* &s[0..b]
SliceTo(s, b) ==
    IF is_char_boundary(s, b)
    THEN [panic |-> FALSE,
          val |-> SubSeq(s, 1, (CHOOSE k \in 1..(Len(s) + 1) : ByteOff(s, k) = b) - 1)]
    ELSE [panic |-> TRUE, val |-> <<>>]

\* positions (1-based character positions) at which a word of s starts
WordStarts(s) ==
    {k \in 1..Len(s) : /\ ~is_whitespace(s[k])
                       /\ (k = 1 \/ is_whitespace(s[k - 1]))}

\* position of the last character of the word that starts at k
WordEnd(s, k) ==
    CHOOSE e \in k..Len(s) :
        /\ \A j \in k..e : ~is_whitespace(s[j])
        /\ (e = Len(s) \/ is_whitespace(s[e + 1]))

\* the elements of a finite set of integers in increasing order
RECURSIVE SortedSeq(_)
SortedSeq(S) ==
    IF S = {} THEN <<>>
    ELSE LET m == CHOOSE x \in S : \A y \in S : x <= y
         IN <<m>> \o SortedSeq(S \ {m})

\* str::split_whitespace, collected
split_whitespace(s) ==
    LET starts == SortedSeq(WordStarts(s))
    IN [i \in 1..Len(starts) |-> SubSeq(s, starts[i], WordEnd(s, starts[i]))]

\* utils::split_whitespace_indices, collected: the byte offset at which each
\* whitespace-delimited word begins
split_whitespace_indices(s) ==
    LET starts == SortedSeq(WordStarts(s))
    IN [i \in 1..Len(starts) |-> ByteOff(s, starts[i])]

\* str::trim
RECURSIVE trim_start(_)
trim_start(s) ==
    IF s # <<>> /\ is_whitespace(s[1]) THEN trim_start(Tail(s)) ELSE s

RECURSIVE trim_end(_)
trim_end(s) ==
    IF s # <<>> /\ is_whitespace(s[Len(s)])
    THEN trim_end(SubSeq(s, 1, Len(s) - 1)) ELSE s

trim(s) == trim_end(trim_start(s))

\* str::find(ch): byte offset of the first occurrence
find(s, ch) ==
    IF \E k \in 1..Len(s) : s[k] = ch
    THEN Some(ByteOff(s, CHOOSE k \in 1..Len(s) :
                            s[k] = ch /\ \A j \in 1..(k - 1) : s[j] # ch))
    ELSE None

\* str::split(ch), collected
RECURSIVE split(_, _)
split(s, ch) ==
    IF \E k \in 1..Len(s) : s[k] = ch
    THEN LET k == CHOOSE k \in 1..Len(s) :
                      s[k] = ch /\ \A j \in 1..(k - 1) : s[j] # ch
         IN <<SubSeq(s, 1, k - 1)>> \o split(SubSeq(s, k + 1, Len(s)), ch)
    ELSE <<s>>

----------------------------------------------------------------------------
(* libtiny_common::MsgSource and MsgTarget *)

Serv(serv) == [kind |-> "Serv", serv |-> serv, name |-> <<>>]

Chan(serv, chan) == [kind |-> "Chan", serv |-> serv, name |-> chan]

User(serv, nick) == [kind |-> "User", serv |-> serv, name |-> nick]

\* MsgSource::serv_name
serv_name(src) == src.serv

CurrentTab == [kind |-> "CurrentTab", serv |-> <<>>, name |-> <<>>]

Server(serv) == [kind |-> "Server", serv |-> serv, name |-> <<>>]

AllServTabs(serv) == [kind |-> "AllServTabs", serv |-> serv, name |-> <<>>]

ChanTarget(serv, chan) == [kind |-> "Chan", serv |-> serv, name |-> chan]

NoTarget == [kind |-> "", serv |-> <<>>, name |-> <<>>]

\* the reserved pseudo-server
mentions == <<"m", "e", "n", "t", "i", "o", "n", "s">>

----------------------------------------------------------------------------
(* Calls on the collaborators.  A handler's effect outside the Connection   *)
(* Set is the sequence of calls it issues, in program order.                *)

\* a call on the UI handle (ui.<op>(...)); a message is its format string
\* and the values formatted into it
UiCall(op, target, fmt, args) ==
    [op |-> op, id |-> 0, target |-> target, fmt |-> fmt, args |-> args]

\* a call on the Client handle with identity id (client.<op>(...))
ClientCall(op, id, args) ==
    [op |-> op, id |-> id, target |-> NoTarget, fmt |-> "", args |-> args]

add_client_err_msg(fmt, args, target) == UiCall("add_client_err_msg", target, fmt, args)

add_client_msg(fmt, args, target) == UiCall("add_client_msg", target, fmt, args)

\* crate::ui::send_msg(ui, clients, src, msg, is_action)
send_msg(src, msg, is_action) == UiCall("send_msg", src, "", <<msg, is_action>>)

\* what a handler returns to run_cmd: the Connection Set it leaves, the calls
\* it issued, and whether it panicked (the calls are those before the panic)
R(cs, ops, panic) == [clients |-> cs, ops |-> ops, panic |-> panic]

----------------------------------------------------------------------------
(* The command table.  The usage strings write the source's backquotes as ' *)

AWAY_CMD ==
    [name |-> <<"a", "w", "a", "y">>, cmd_fn |-> "away",
     description |-> "Sets/removes away message",
     usage |-> "'/away' or '/away <message>'"]

CLOSE_CMD ==
    [name |-> <<"c", "l", "o", "s", "e">>, cmd_fn |-> "close",
     description |-> "Closes current tab",
     usage |-> "'/close' or '/close <reason>'"]

CONNECT_CMD ==
    [name |-> <<"c", "o", "n", "n", "e", "c", "t">>, cmd_fn |-> "connect",
     description |-> "Connects to a server",
     usage |-> "'/connect <host>:<port>' or '/connect' to reconnect"]

JOIN_CMD ==
    [name |-> <<"j", "o", "i", "n">>, cmd_fn |-> "join",
     description |-> "Joins a channel",
     usage |-> "'/join <chan1> [-ignore] [-notify [off|mentions|messages]],<chan2>...' or '/join' in a channel tab to rejoin"]

ME_CMD ==
    [name |-> <<"m", "e">>, cmd_fn |-> "me",
     description |-> "Sends emote message",
     usage |-> "'/me <message>'"]

MSG_CMD ==
    [name |-> <<"m", "s", "g">>, cmd_fn |-> "msg",
     description |-> "Sends a message to a user",
     usage |-> "'/msg <nick> <message>'"]

NAMES_CMD ==
    [name |-> <<"n", "a", "m", "e", "s">>, cmd_fn |-> "names",
     description |-> "Shows users in channel",
     usage |-> "'/names'"]

NICK_CMD ==
    [name |-> <<"n", "i", "c", "k">>, cmd_fn |-> "nick",
     description |-> "Sets your nick",
     usage |-> "'/nick <nick>'"]

HELP_CMD ==
    [name |-> <<"h", "e", "l", "p">>, cmd_fn |-> "help",
     description |-> "Displays this message",
     usage |-> "'/help'"]

CMDS == <<AWAY_CMD, CLOSE_CMD, CONNECT_CMD, JOIN_CMD, ME_CMD, MSG_CMD,
          NAMES_CMD, NICK_CMD, HELP_CMD>>

----------------------------------------------------------------------------
(* The parser *)

\* parse_cmd mutated: the tail is rebuilt from the words after the name,
\* joined by single spaces (re-split instead of sliced)
RECURSIVE JoinWords(_)
JoinWords(ws) ==
    IF ws = <<>> THEN <<>>
    ELSE IF Len(ws) = 1 THEN ws[1]
    ELSE ws[1] \o <<" ">> \o JoinWords(Tail(ws))

parse_cmd_resplit(cmd) ==
    LET words == split_whitespace(cmd)
    IN IF words = <<>> THEN [panic |-> FALSE, res |-> None]
       ELSE LET hits == {i \in 1..Len(CMDS) : words[1] = CMDS[i].name}
            IN IF hits = {} THEN [panic |-> FALSE, res |-> None]
               ELSE [panic |-> FALSE,
                     res |-> Some([cmd |-> CMDS[CHOOSE i \in hits : \A j \in hits : i <= j],
                                   args |-> JoinWords(Tail(words))])]

\* parse_cmd: [panic, res]; res is None or Some(ParsedCmd {cmd, args})
parse_cmd(cmd) ==
    LET words == split_whitespace(cmd)
    IN IF words = <<>> THEN [panic |-> FALSE, res |-> None]
       ELSE LET cmd_name == words[1]
                ws_idxs == split_whitespace_indices(cmd)
                rest == IF Len(ws_idxs) < 2
                        THEN [panic |-> FALSE, val |-> <<>>]
                        ELSE SliceFrom(cmd, ws_idxs[2])
                hits == {i \in 1..Len(CMDS) : cmd_name = CMDS[i].name}
            IN IF rest.panic THEN [panic |-> TRUE, res |-> None]
               ELSE IF hits = {} THEN [panic |-> FALSE, res |-> None]
               ELSE [panic |-> FALSE,
                     res |-> Some([cmd |-> CMDS[CHOOSE i \in hits : \A j \in hits : i <= j],
                                   args |-> rest.val])]

\* find_client_idx mutated: the last match instead of the first
find_client_idx_last(cs, name) ==
    LET hits == {i \in 1..Len(cs) : cs[i].serv = name}
    IN IF hits = {} THEN None
       ELSE Some(CHOOSE i \in hits : \A j \in hits : j <= i)

\* find_client_idx: the position (1-based) of the first client whose server
\* name is name
find_client_idx(cs, name) ==
    LET hits == {i \in 1..Len(cs) : cs[i].serv = name}
    IN IF hits = {} THEN None
       ELSE Some(CHOOSE i \in hits : \A j \in hits : i <= j)

\* find_client: the same client, as a position in the Vec
find_client(cs, name) == find_client_idx(cs, name)

\* Vec::remove
RemoveAt(cs, i) == SubSeq(cs, 1, i - 1) \o SubSeq(cs, i + 1, Len(cs))

\* the identity of a handle made by Client::new: one no live handle has
FreshId(cs) ==
    CHOOSE n \in 1..(Len(cs) + 1) :
        /\ \A i \in 1..Len(cs) : cs[i].id # n
        /\ \A m \in 1..(n - 1) : \E i \in 1..Len(cs) : cs[i].id = m

----------------------------------------------------------------------------
(* The handlers.  Each takes the CmdArgs record a = [args, defaults, ui,    *)
(* clients, src, nicks]: ui is what the UI answers when asked (current_tab, *)
(* tab_config), nicks what the connection answers to get_chan_nicks.        *)

\* away
away(a) ==
    LET msg == IF a.args = <<>> THEN None ELSE Some(a.args)
        c == find_client(a.clients, serv_name(a.src))
    IN IF c # None
       THEN R(a.clients, <<ClientCall("away", a.clients[c[1]].id, <<msg>>)>>, FALSE)
       ELSE R(a.clients, <<>>, FALSE)

\* close
close(a) ==
    LET serv == a.src.serv
        reason == IF a.args = <<>> THEN None ELSE Some(a.args)
        idx == find_client_idx(a.clients, serv)
    IN CASE a.src.kind = "Serv" /\ serv = mentions ->
              R(a.clients, <<>>, FALSE)
         [] a.src.kind = "Serv" /\ serv # mentions ->
              LET closed == <<UiCall("close_server_tab", Serv(serv), "", <<>>)>>
              IN IF idx = None
                 THEN R(a.clients, closed, TRUE)      \* unwrap() of None
                 ELSE LET client == a.clients[idx[1]]
                      IN R(RemoveAt(a.clients, idx[1]),
                           closed \o <<ClientCall("clients.remove", client.id, <<>>),
                                    ClientCall("quit", client.id, <<reason>>)>>,
                           FALSE)
         [] a.src.kind = "Chan" ->
              LET closed == <<UiCall("close_chan_tab", Chan(serv, a.src.name), "", <<>>)>>
              IN IF idx = None
                 THEN R(a.clients, closed, TRUE)      \* unwrap() of None
                 ELSE R(a.clients,
                        closed \o <<ClientCall("part", a.clients[idx[1]].id,
                                            <<a.src.name, reason>>)>>,
                        FALSE)
         [] a.src.kind = "User" ->
              R(a.clients,
                <<UiCall("close_user_tab", User(serv, a.src.name), "", <<>>)>>,
                FALSE)

\* reconnect
reconnect(a) ==
    LET c == find_client(a.clients, serv_name(a.src))
    IN IF c # None
       THEN R(a.clients,
              <<add_client_msg("Reconnecting...", <<>>, AllServTabs(serv_name(a.src))),
                ClientCall("reconnect", a.clients[c[1]].id, <<None>>)>>, FALSE)
       ELSE R(a.clients, <<>>, FALSE)

Digits == <<"0", "1", "2", "3", "4", "5", "6", "7", "8", "9">>

\* char::to_digit(10)
to_digit(c) ==
    IF \E i \in 1..10 : Digits[i] = c
    THEN Some((CHOOSE i \in 1..10 : Digits[i] = c) - 1)
    ELSE None

U16_MAX == 65535

\* the digit loop of str::parse::<u16>: each character is checked to be a
\* digit before the overflow of the value read so far is reported
RECURSIVE ParseDigits(_, _)
ParseDigits(s, acc) ==
    IF s = <<>> THEN [ok |-> TRUE, val |-> acc, err |-> ""]
    ELSE LET x == to_digit(s[1])
         IN IF x = None
            THEN [ok |-> FALSE, val |-> 0, err |-> "invalid digit found in string"]
            ELSE IF acc * 10 + x[1] > U16_MAX
            THEN [ok |-> FALSE, val |-> 0,
                  err |-> "number too large to fit in target type"]
            ELSE ParseDigits(Tail(s), acc * 10 + x[1])

\* str::parse::<u16>
parse_u16(s) ==
    IF s = <<>>
    THEN [ok |-> FALSE, val |-> 0, err |-> "cannot parse integer from empty string"]
    ELSE IF s = <<"+">> \/ s = <<"-">>
    THEN [ok |-> FALSE, val |-> 0, err |-> "invalid digit found in string"]
    ELSE IF s[1] = "+" THEN ParseDigits(Tail(s), 0)
    ELSE ParseDigits(s, 0)

\* split_port, the helper inside connect_
split_port(s) ==
    LET at == find(s, ":")
    IN IF at = None THEN None
       ELSE Some(<<SliceTo(s, at[1]).val, SliceFrom(s, at[1] + 1).val>>)

\* connect_existing mutated: the Client is taken out of the Vec and pushed
\* back at its end before it is reconnected
connect_existing_repush(c, serv, port, a) ==
    R(RemoveAt(a.clients, c) \o <<a.clients[c]>>,
      <<add_client_msg("Connecting...", <<>>, AllServTabs(serv)),
        ClientCall("reconnect", a.clients[c].id, <<Some(port)>>)>>,
      FALSE)

\* connect_existing mutated: a second Client is created for the host instead
\* of reconnecting the one that exists
connect_existing_push_second(c, serv, port, a) ==
    R(Append(a.clients, [id |-> FreshId(a.clients), serv |-> serv]),
      <<add_client_msg("Connecting...", <<>>, AllServTabs(serv)),
        ClientCall("clients.push", FreshId(a.clients), <<>>)>>,
      FALSE)

\* connect_existing mutated: the reconnect forgets the port just parsed
connect_existing_no_port(c, serv, port, a) ==
    R(a.clients,
      <<add_client_msg("Connecting...", <<>>, AllServTabs(serv)),
        ClientCall("reconnect", a.clients[c].id, <<None>>)>>,
      FALSE)

\* connect_, the host already has a connection (at position c): reconnect it
\* using the new port
connect_existing(c, serv, port, a) ==
    R(a.clients,
      <<add_client_msg("Connecting...", <<>>, AllServTabs(serv)),
        ClientCall("reconnect", a.clients[c].id, <<Some(port)>>)>>,
      FALSE)

\* what Client::new is given
ServerInfo(serv, port, pass, defaults) ==
    [addr |-> serv, port |-> port, pass |-> pass, tls |-> defaults.tls,
     realname |-> defaults.realname, nicks |-> defaults.nicks,
     auto_join |-> defaults.join]

\* connect_new mutated: the event pump of the new connection is never spawned
connect_new_no_spawn(serv, port, pass, a) ==
    LET id == FreshId(a.clients)
    IN R(Append(a.clients, [id |-> id, serv |-> serv]),
         <<UiCall("new_server_tab", Serv(serv), "", <<None>>),
           add_client_msg("Connecting...", <<>>, Server(serv)),
           ClientCall("Client::new", id, <<ServerInfo(serv, port, pass, a.defaults)>>),
           ClientCall("clients.push", id, <<>>)>>,
         FALSE)

\* connect_, the host has no connection: a new tab, a new Client, its event
\* pump, and the push onto the Vec
connect_new(serv, port, pass, a) ==
    LET id == FreshId(a.clients)
    IN R(Append(a.clients, [id |-> id, serv |-> serv]),
         <<UiCall("new_server_tab", Serv(serv), "", <<None>>),
           add_client_msg("Connecting...", <<>>, Server(serv)),
           ClientCall("Client::new", id, <<ServerInfo(serv, port, pass, a.defaults)>>),
           ClientCall("spawn_local", id, <<>>),
           ClientCall("clients.push", id, <<>>)>>,
         FALSE)

\* connect_
connect_(serv_addr, pass, a) ==
    LET sp == split_port(serv_addr)
    IN IF sp = None
       THEN R(a.clients,
              <<add_client_err_msg("connect: Need a <host>:<port>", <<>>, CurrentTab)>>,
              FALSE)
       ELSE LET serv == sp[1][1]
                serv_port == sp[1][2]
                port == parse_u16(serv_port)
                c == find_client(a.clients, serv)
            IN IF ~port.ok
               THEN R(a.clients,
                      <<add_client_err_msg("connect: Can't parse port {serv_port}: {err}",
                                           <<serv_port, port.err>>, CurrentTab)>>,
                      FALSE)
               ELSE IF c # None
               THEN connect_existing(c[1], serv, port.val, a)
               ELSE connect_new(serv, port.val, pass, a)

\* connect mutated: words after the second are ignored
connect_ignore_extra(a) ==
    LET words == split_whitespace(a.args)
    IN CASE Len(words) = 0 -> reconnect(a)
         [] Len(words) = 1 -> connect_(words[1], None, a)
         [] OTHER -> connect_(words[1], Some(words[2]), a)

\* connect
connect(a) ==
    LET words == split_whitespace(a.args)
    IN CASE Len(words) = 0 -> reconnect(a)
         [] Len(words) = 1 -> connect_(words[1], None, a)
         [] Len(words) = 2 -> connect_(words[1], Some(words[2]), a)
         [] OTHER ->
              R(a.clients,
                <<add_client_err_msg("Usage: {}", <<CONNECT_CMD.usage>>, CurrentTab)>>,
                FALSE)

\* libtiny_tui::config::Chan::from_cmd_args: the entry's first word is the
\* channel name; nothing after it gives Chan::Name, the flag -ignore gives
\* Chan::WithConfig, anything else is an error.  A Chan is [name, config],
\* config None for Chan::Name
IgnoreFlag == <<"-", "i", "g", "n", "o", "r", "e">>

from_cmd_args(c) ==
    LET words == split_whitespace(c)
    IN IF words = <<>> THEN [ok |-> FALSE, chan |-> <<>>, err |-> "empty channel"]
       ELSE IF Len(words) = 1
       THEN [ok |-> TRUE, chan |-> [name |-> words[1], config |-> None], err |-> ""]
       ELSE IF Tail(words) = <<IgnoreFlag>>
       THEN [ok |-> TRUE,
             chan |-> [name |-> words[1], config |-> Some([ignore |-> TRUE])],
             err |-> ""]
       ELSE [ok |-> FALSE, chan |-> <<>>, err |-> "bad channel arguments"]

\* the channels of the entries that parsed, in order
RECURSIVE FilterOk(_)
FilterOk(rs) ==
    IF rs = <<>> THEN <<>>
    ELSE (IF rs[1].ok THEN <<rs[1].chan>> ELSE <<>>) \o FilterOk(Tail(rs))

\* the error messages of the entries that did not parse, in order
RECURSIVE ErrMsgs(_)
ErrMsgs(rs) ==
    IF rs = <<>> THEN <<>>
    ELSE (IF rs[1].ok THEN <<>>
          ELSE <<add_client_err_msg("{err}", <<rs[1].err>>, CurrentTab)>>)
         \o ErrMsgs(Tail(rs))

\* join mutated: the channel of the current tab is rejoined with a fresh
\* default configuration
rejoin_chan_default(cur, ui) ==
    [name |-> cur.name, config |-> Some([ignore |-> FALSE])]

\* join, no channel given on a channel tab: rejoin the tab's channel, with
\* the configuration the UI holds for it (Chan::WithConfig)
rejoin_chan(cur, ui) ==
    [name |-> cur.name, config |-> Some(ui.tab_config)]

\* the set_tab_config calls of join, one per channel: a Chan::Name is given
\* the configuration the UI holds, a Chan::WithConfig its own
set_tab_configs(serv, chans, ui) ==
    [i \in 1..Len(chans) |->
        UiCall("set_tab_config", Chan(serv, chans[i].name), "",
               <<IF chans[i].config = None THEN ui.tab_config
                 ELSE chans[i].config[1]>>)]

\* join_chans mutated: the tabs are registered before the connection is
\* looked up
join_chans_register_first(chans, errs, a) ==
    LET serv == serv_name(a.src)
        c == find_client(a.clients, serv)
    IN IF c # None
       THEN R(a.clients,
              errs \o set_tab_configs(serv, chans, a.ui)
              \o <<ClientCall("join", a.clients[c[1]].id,
                              <<[i \in 1..Len(chans) |-> chans[i].name]>>)>>,
              FALSE)
       ELSE R(a.clients,
              errs \o set_tab_configs(serv, chans, a.ui)
              \o <<add_client_err_msg("Can't join: Not connected to server {}",
                                      <<serv>>, CurrentTab)>>,
              FALSE)

\* join once the channels are known (errs: the messages posted so far): with
\* a connection register the tab configurations, then join; without one
\* report it
join_chans(chans, errs, a) ==
    LET serv == serv_name(a.src)
        c == find_client(a.clients, serv)
    IN IF c # None
       THEN R(a.clients,
              errs \o set_tab_configs(serv, chans, a.ui)
              \o <<ClientCall("join", a.clients[c[1]].id,
                              <<[i \in 1..Len(chans) |-> chans[i].name]>>)>>,
              FALSE)
       ELSE R(a.clients,
              errs \o <<add_client_err_msg("Can't join: Not connected to server {}",
                                           <<serv>>, CurrentTab)>>,
              FALSE)

\* join
join(a) ==
    IF a.src.kind = "Serv" /\ a.src.serv = mentions
    THEN R(a.clients,
           <<add_client_err_msg("Switch to a server tab to join a channel", <<>>,
                                CurrentTab)>>, FALSE)
    ELSE
    LET entries == split(a.args, ",")
        parsed == [i \in 1..Len(entries) |-> from_cmd_args(trim(entries[i]))]
        errs == ErrMsgs(parsed)
        given == FilterOk(parsed)
        cur == a.ui.current_tab
    IN IF given = <<>>
       THEN CASE cur = None -> R(a.clients, errs, FALSE)
              [] cur # None /\ cur[1].kind = "Chan" ->
                   join_chans(<<rejoin_chan(cur[1], a.ui)>>, errs, a)
              [] OTHER ->
                   R(a.clients,
                     errs \o <<add_client_err_msg("Usage: {}", <<JOIN_CMD.usage>>,
                                                  CurrentTab)>>,
                     FALSE)
       ELSE join_chans(given, errs, a)

\* me
me(a) ==
    IF a.args = <<>>
    THEN R(a.clients,
           <<add_client_err_msg("Usage: {}", <<ME_CMD.usage>>, CurrentTab)>>, FALSE)
    ELSE R(a.clients, <<send_msg(a.src, a.args, TRUE)>>, FALSE)

\* utils::is_nick_first_char: a letter or one of RFC 2812's special characters
is_nick_first_char(c) ==
    is_alphabetic(c) \/ c \in {"[", "]", "\\", "_", "^", "{", "|", "}"}

\* split_msg_args: [panic, res]; res is None or Some(<<target, msg>>)
split_msg_args(args) ==
    IF args = <<>> THEN [panic |-> FALSE, res |-> None]
    ELSE IF ~is_nick_first_char(args[1]) THEN [panic |-> FALSE, res |-> None]
    ELSE LET ws == {k \in 2..Len(args) : is_whitespace(args[k])}
         IN IF ws = {} THEN [panic |-> FALSE, res |-> None]
            ELSE LET k == CHOOSE k \in ws : \A j \in ws : k <= j
                     i == ByteOff(args, k)
                     target == SliceTo(args, i)
                     msg_ == SliceFrom(args, i + 1)
                 IN IF target.panic \/ msg_.panic
                    THEN [panic |-> TRUE, res |-> None]
                    ELSE [panic |-> FALSE, res |-> Some(<<target.val, msg_.val>>)]

\* msg mutated: the message always goes to a User target on the current
\* source's server
msg_user_only(a) ==
    LET sp == split_msg_args(a.args)
    IN IF sp.panic THEN R(a.clients, <<>>, TRUE)
       ELSE IF sp.res = None \/ sp.res[1][2] = <<>>
       THEN R(a.clients,
              <<add_client_err_msg("Usage: {}", <<MSG_CMD.usage>>, CurrentTab)>>, FALSE)
       ELSE R(a.clients,
              <<send_msg(User(serv_name(a.src), sp.res[1][1]), sp.res[1][2], FALSE)>>,
              FALSE)

\* msg
msg(a) ==
    LET fail == R(a.clients,
                  <<add_client_err_msg("Usage: {}", <<MSG_CMD.usage>>, CurrentTab)>>,
                  FALSE)
        sp == split_msg_args(a.args)
    IN IF sp.panic THEN R(a.clients, <<>>, TRUE)
       ELSE IF sp.res = None THEN fail
       ELSE LET target == sp.res[1][1]
                text == sp.res[1][2]
            IN IF text = <<>> THEN fail
               ELSE LET src == IF \E i \in 1..Len(a.clients) : a.clients[i].serv = target
                               THEN Serv(target)
                               ELSE User(serv_name(a.src), target)
                    IN R(a.clients, <<send_msg(src, text, FALSE)>>, FALSE)

\* names
names(a) ==
    LET words == split_whitespace(a.args)
        c == find_client(a.clients, serv_name(a.src))
    IN IF c = None THEN R(a.clients, <<>>, FALSE)
       ELSE IF a.src.kind = "Chan"
       THEN LET nicks_vec == a.nicks
                target == ChanTarget(a.src.serv, a.src.name)
            IN IF words = <<>>
               THEN R(a.clients,
                      <<add_client_msg("{} users: {}", <<Len(nicks_vec), nicks_vec>>,
                                       target)>>, FALSE)
               ELSE IF \E i \in 1..Len(nicks_vec) : nicks_vec[i] = words[1]
               THEN R(a.clients,
                      <<add_client_msg("{nick} is online", <<words[1]>>, target)>>, FALSE)
               ELSE R(a.clients,
                      <<add_client_msg("{nick} is not in the channel", <<words[1]>>,
                                       target)>>, FALSE)
       ELSE R(a.clients,
              <<add_client_err_msg("/names only supported in chan tabs", <<>>,
                                   CurrentTab)>>, FALSE)

\* nick mutated: the connection is looked up before the arguments are counted
nick_lookup_first(a) ==
    LET words == split_whitespace(a.args)
        c == find_client(a.clients, serv_name(a.src))
    IN IF c = None THEN R(a.clients, <<>>, FALSE)
       ELSE IF Len(words) = 1
       THEN R(a.clients, <<ClientCall("nick", a.clients[c[1]].id, <<words[1]>>)>>,
              FALSE)
       ELSE R(a.clients,
              <<add_client_err_msg("Usage: {}", <<NICK_CMD.usage>>, CurrentTab)>>, FALSE)

\* nick
nick(a) ==
    LET words == split_whitespace(a.args)
        c == find_client(a.clients, serv_name(a.src))
    IN IF Len(words) = 1
       THEN IF c # None
            THEN R(a.clients, <<ClientCall("nick", a.clients[c[1]].id, <<words[1]>>)>>,
                   FALSE)
            ELSE R(a.clients, <<>>, FALSE)
       ELSE R(a.clients,
              <<add_client_err_msg("Usage: {}", <<NICK_CMD.usage>>, CurrentTab)>>, FALSE)

\* help
help(a) ==
    R(a.clients,
      <<add_client_msg("Client Commands:", <<>>, CurrentTab)>>
      \o [i \in 1..Len(CMDS) |->
            add_client_msg("/{:<10} - {:<25} - Usage: {}",
                           <<CMDS[i].name, CMDS[i].description, CMDS[i].usage>>,
                           CurrentTab)],
      FALSE)

\* (cmd.cmd_fn)(cmd_args): the call through the table's function pointer
cmd_fn(fn, a) ==
    CASE fn = "away" -> away(a)
      [] fn = "close" -> close(a)
      [] fn = "connect" -> connect(a)
      [] fn = "join" -> join(a)
      [] fn = "me" -> me(a)
      [] fn = "msg" -> msg(a)
      [] fn = "names" -> names(a)
      [] fn = "nick" -> nick(a)
      [] fn = "help" -> help(a)

\* run_cmd mutated: a line without a command name is dropped without a word
run_cmd_ignore_blank(cmd, src, defaults, ui, nicks, cs) ==
    LET p == parse_cmd(cmd)
    IN IF p.panic THEN R(cs, <<>>, TRUE)
       ELSE IF p.res # None
       THEN cmd_fn(p.res[1].cmd.cmd_fn,
                   [args |-> p.res[1].args, defaults |-> defaults, ui |-> ui,
                    clients |-> cs, src |-> src, nicks |-> nicks])
       ELSE IF split_whitespace(cmd) = <<>> THEN R(cs, <<>>, FALSE)
       ELSE R(cs,
              <<add_client_err_msg("Unsupported command: \"/{cmd}\"", <<cmd>>,
                                   CurrentTab)>>,
              FALSE)

\* run_cmd mutated: the error names the command by its first word only
run_cmd_name_only(cmd, src, defaults, ui, nicks, cs) ==
    LET p == parse_cmd(cmd)
        words == split_whitespace(cmd)
    IN IF p.res # None
       THEN cmd_fn(p.res[1].cmd.cmd_fn,
                   [args |-> p.res[1].args, defaults |-> defaults, ui |-> ui,
                    clients |-> cs, src |-> src, nicks |-> nicks])
       ELSE R(cs,
              <<add_client_err_msg("Unsupported command: \"/{cmd}\"",
                                   <<IF words = <<>> THEN cmd ELSE words[1]>>,
                                   CurrentTab)>>,
              FALSE)

\* run_cmd
run_cmd(cmd, src, defaults, ui, nicks, cs) ==
    LET p == parse_cmd(cmd)
    IN IF p.panic THEN R(cs, <<>>, TRUE)
       ELSE IF p.res # None
       THEN cmd_fn(p.res[1].cmd.cmd_fn,
                   [args |-> p.res[1].args, defaults |-> defaults, ui |-> ui,
                    clients |-> cs, src |-> src, nicks |-> nicks])
       ELSE R(cs,
              <<add_client_err_msg("Unsupported command: \"/{cmd}\"", <<cmd>>,
                                   CurrentTab)>>,
              FALSE)

----------------------------------------------------------------------------
(* Inputs *)

HostA == <<"a">>

HostB == <<"b">>

Hosts == {HostA, HostB}

\* the sources a command can be issued from
Sources ==
    {Serv(HostA), Serv(HostB), Serv(mentions),
     Chan(HostA, <<"#", "c">>), Chan(HostB, <<"#", "c">>),
     User(HostA, <<"n">>)}

\* config::Defaults
Defaults == [tls |-> TRUE, realname |-> "tiny", nicks |-> <<"tiny">>, join |-> <<>>]

\* the tab configurations the UI may hold for a channel
TabConfigs == {[ignore |-> FALSE], [ignore |-> TRUE]}

\* the member lists a connection may report for a channel
NickLists == {<<>>, <<<<"n">>>>, <<<<"m">>, <<"n">>>>}

\* all strings over a set of characters, of length at most n
RECURSIVE StringsUpTo(_, _)
StringsUpTo(chars, n) ==
    IF n = 0 THEN {<<>>}
    ELSE LET shorter == StringsUpTo(chars, n - 1)
         IN shorter \cup {Append(s, c) : s \in shorter, c \in chars}

TailChars == {"a", " ", "U3000"}

Tails == StringsUpTo(TailChars, MaxTail)

\* the first words of the enumerated lines
EnumNames ==
    {MSG_CMD.name, ME_CMD.name, AWAY_CMD.name, CLOSE_CMD.name, <<"x", "y", "z">>}

\* word, one space, and every tail
EnumLines == {w \o <<" ">> \o t : w \in EnumNames, t \in Tails}

\* lines written out
CuratedLines ==
    {
     <<>>,
     <<" ">>,
     <<"U3000">>,
     <<"x", "y", "z">>,
     <<"x", "y", "z", " ", "a", " ", "b">>,
     <<"x", "y", "z", " ", " ", "a">>,
     <<" ", "m", "s", "g", " ", "n", " ", " ", "h", "i">>,
     <<"m", "s", "g", "a", " ", "b">>,
     <<"M", "s", "g", " ", "n", " ", "h", "i">>,
     <<"h", "e", "l", "p", "U3000", "x">>,
     <<"c", "o", "n", "n", "e", "c", "t">>,
     <<"c", "o", "n", "n", "e", "c", "t", " ", "a", ":", "1">>,
     <<"c", "o", "n", "n", "e", "c", "t", " ", "b", ":", "6", "6", "6", "7">>,
     <<"c", "o", "n", "n", "e", "c", "t", " ", "a", ":", "6", "6", "9", "7", " ", "p", "w">>,
     <<"c", "o", "n", "n", "e", "c", "t", " ", "b", ":", "1", " ", "p", "w">>,
     <<"c", "o", "n", "n", "e", "c", "t", " ", " ", "a", ":", "6", "5", "5", "3", "5">>,
     <<"c", "o", "n", "n", "e", "c", "t", " ", "a">>,
     <<"c", "o", "n", "n", "e", "c", "t", " ", "a", ":">>,
     <<"c", "o", "n", "n", "e", "c", "t", " ", "a", ":", "x">>,
     <<"c", "o", "n", "n", "e", "c", "t", " ", "a", ":", "6", "5", "5", "3", "6">>,
     <<"c", "o", "n", "n", "e", "c", "t", " ", "b", ":", "+", "1">>,
     <<"c", "o", "n", "n", "e", "c", "t", " ", "a", ":", "1", ":", "2">>,
     <<"c", "o", "n", "n", "e", "c", "t", " ", "a", ":", "1", " ", "p", " ", "q">>,
     <<"c", "o", "n", "n", "e", "c", "t", " ", "a", " ", "p", " ", "q">>,
     <<"c", "o", "n", "n", "e", "c", "t", " ", "a", " ", "p", "w">>,
     <<"c", "o", "n", "n", "e", "c", "t", " ", "a", ":", "-", "1">>,
     <<"j", "o", "i", "n">>,
     <<"j", "o", "i", "n", " ", "#", "c">>,
     <<"j", "o", "i", "n", " ", "#", "c", ",", "#", "d">>,
     <<"j", "o", "i", "n", " ", "#", "c", " ", "-", "i", "g", "n", "o", "r", "e">>,
     <<"j", "o", "i", "n", " ", "#", "c", " ", "-", "x">>,
     <<"j", "o", "i", "n", " ", ",">>,
     <<"j", "o", "i", "n", " ", "#", "c", ",">>,
     <<"n", "a", "m", "e", "s">>,
     <<"n", "a", "m", "e", "s", " ", "n">>,
     <<"n", "a", "m", "e", "s", " ", "x">>,
     <<"n", "i", "c", "k">>,
     <<"n", "i", "c", "k", " ", "n">>,
     <<"n", "i", "c", "k", " ", "n", " ", "m">>,
     <<"h", "e", "l", "p">>,
     <<"h", "e", "l", "p", " ", "x">>,
     <<"m", "s", "g", " ", "n", " ", "h", "i">>,
     <<"m", "s", "g", " ", "a", " ", "h", "i">>,
     <<"m", "s", "g", " ", "b", " ", "h", "i", " ", " ", "y", "o", "u">>,
     <<"m", "s", "g", " ", "#", "c", " ", "h", "i">>,
     <<"m", "s", "g", " ", "n", "U3000", "h", "i">>,
     <<"m", "s", "g", " ", "n">>,
     <<"m", "s", "g", " ", "n", ",", " ", "h", "i">>,
     <<"c", "l", "o", "s", "e">>,
     <<"c", "l", "o", "s", "e", " ", "b", "y", "e">>,
     <<"c", "l", "o", "s", "e", " ", " ", "b", "y", "e", " ", "n", "o", "w", " ">>,
     <<"m", "e">>,
     <<"m", "e", " ", "w", "a", "v", "e", "s", " ", " ", "h", "i">>,
     <<"m", "e", " ", "a", " ", " ", "b", " ">>,
     <<"a", "w", "a", "y">>,
     <<"a", "w", "a", "y", " ", "g", "o", "n", "e">>
    }

Lines == EnumLines \cup CuratedLines

\* the Connection Sets the program may start with: one client per configured
\* server, in configuration order (two entries may name the same server)
InitClients ==
    UNION {{[i \in 1..n |-> [id |-> i, serv |-> f[i]]] : f \in [1..n -> Hosts]}
           : n \in 0..MaxClients}

----------------------------------------------------------------------------
(* The tab bar entry of libtiny_tui (crates/libtiny_tui/src/tab.rs).  A Tab *)
(* is [visible_name, style, switch]; its widget and its src take no part in *)
(* drawing the label and are left out.  A terminal attribute word (u16:     *)
(* colour in the low bits, attribute flags above) is [color, attrs], with   *)
(* attrs the set of flags that are set, so that fg | TB_UNDERLINE is the    *)
(* union with {TB_UNDERLINE}.                                               *)

TabStyles == {"Normal", "JoinOrPart", "NewMsg", "Highlight"}

TB_UNDERLINE == "underline"

TB_BOLD == "bold"

\* fg | attr
BitOr(fg, attr) == [fg EXCEPT !.attrs = @ \cup {attr}]

Style(color, attrs, bg) ==
    [fg |-> [color |-> color, attrs |-> attrs], bg |-> [color |-> bg, attrs |-> {}]]

\* two colour themes: every tab style distinct; in the second the normal
\* style is itself underlined
ColorsPlain ==
    [tab_active |-> Style(0, {TB_BOLD}, 0),
     tab_normal |-> Style(8, {}, 0),
     tab_joinpart |-> Style(11, {}, 0),
     tab_new_msg |-> Style(5, {}, 0),
     tab_highlight |-> Style(9, {TB_BOLD}, 0)]

ColorsUnderlined == [ColorsPlain EXCEPT !.tab_normal = Style(8, {TB_UNDERLINE}, 0)]

ColorThemes == {ColorsPlain, ColorsUnderlined}

\* tab_style
tab_style(style, colors) ==
    CASE style = "Normal" -> colors.tab_normal
      [] style = "JoinOrPart" -> colors.tab_joinpart
      [] style = "NewMsg" -> colors.tab_new_msg
      [] style = "Highlight" -> colors.tab_highlight

\* the characters of the labels: two letters that differ in case only, a
\* wide character (U+65E5, two columns) and a combining mark (U+0301, no
\* column)
LabelChars == {"a", "A", "U65E5", "U0301"}

\* unicode_width: the number of terminal columns a character takes
char_width(ch) ==
    CASE ch = "U65E5" -> 2
      [] ch = "U0301" -> 0
      [] OTHER -> 1

\* UnicodeWidthStr::width: the sum of the widths of the characters
RECURSIVE str_width(_)
str_width(s) == IF s = <<>> THEN 0 ELSE char_width(s[1]) + str_width(Tail(s))

\* Tab::visible_name
visible_name(self) == self.visible_name

\* Tab::set_style
set_style(self, style) == [self EXCEPT !.style = style]

\* Tab::width
width(self) == str_width(visible_name(self))

\* tb.change_cell(x, y, ch, fg, bg)
change_cell(x, y, ch, fg, bg) == [x |-> x, y |-> y, ch |-> ch, fg |-> fg, bg |-> bg]

\* underlined mutated: the flag switch_drawn is not consulted
underlined_every(ch, switch, switch_drawn) == Some(ch) = switch

\* Tab::draw, the test that selects the underlined cell
underlined(ch, switch, switch_drawn) == Some(ch) = switch /\ ~switch_drawn

\* Tab::draw, the loop over the characters of the label from position k on:
\* the cells written so far, and pos_x when the loop ends
RECURSIVE draw_loop(_, _, _, _, _, _, _)
draw_loop(self, style, k, pos_x, pos_y, switch_drawn, cells) ==
    IF k > Len(visible_name(self)) THEN [cells |-> cells, pos_x |-> pos_x]
    ELSE LET ch == visible_name(self)[k]
         IN IF underlined(ch, self.switch, switch_drawn)
            THEN draw_loop(self, style, k + 1, pos_x + 1, pos_y, TRUE,
                           Append(cells,
                                  change_cell(pos_x, pos_y, ch,
                                              BitOr(style.fg, TB_UNDERLINE), style.bg)))
            ELSE draw_loop(self, style, k + 1, pos_x + 1, pos_y, switch_drawn,
                           Append(cells,
                                  change_cell(pos_x, pos_y, ch, style.fg, style.bg)))

\* Tab::draw: the Tab when the call returns (it is borrowed immutably), the
\* cells changed in the Termbox, and the last value of the local pos_x
draw(self, colors, pos_x, pos_y, active) ==
    LET style == IF active THEN colors.tab_active ELSE tab_style(self.style, colors)
        r == draw_loop(self, style, 1, pos_x, pos_y, FALSE, <<>>)
    IN [self |-> self, cells |-> r.cells, pos_x |-> r.pos_x]

\* the labels, shortcuts and tabs drawn
Labels == StringsUpTo(LabelChars, MaxLabel) \ {<<>>}

Switches == {None, Some("a"), Some("A")}

Tabs ==
    {[visible_name |-> n, style |-> s, switch |-> sw] :
        n \in Labels, s \in TabStyles, sw \in Switches}

\* where on the screen a tab is drawn
Columns == {0, 2}

Rows == {0}

NoTab == [visible_name |-> <<>>, style |-> "Normal", switch |-> None]

\* nothing drawn yet
NoDraw ==
    [drawn |-> FALSE, self |-> NoTab, colors |-> ColorsPlain, pos_x |-> 0,
     pos_y |-> 0, active |-> FALSE, cells |-> <<>>, end_x |-> 0, after |-> NoTab]

----------------------------------------------------------------------------
(* The state machine: the event loop hands a line to run_cmd ("idle" ->     *)
(* "returned", or "aborted" when the handler panics) and takes the next one *)
(* when run_cmd has returned.                                               *)

NoCall ==
    [fn |-> "", cmd |-> <<>>, src |-> Serv(<<>>), clients |-> <<>>, ops |-> <<>>,
     ui |-> [current_tab |-> None, tab_config |-> [ignore |-> FALSE]],
     nicks |-> <<>>, prev |-> None]

\* what is kept of a call for the next one: the host and the Connection Set
\* before, when the call was a /connect that pushed a Client; else nothing
Connected(l, cs) ==
    IF l.fn = "connect" /\ Len(cs) = Len(l.clients) + 1
    THEN Some([host |-> cs[Len(cs)].serv, before |-> l.clients])
    ELSE None

\* the handler parse_cmd selects for a line; "none" when it returns None
Dispatched(cmd) ==
    LET p == parse_cmd(cmd)
    IN IF p.res = None THEN "none" ELSE p.res[1].cmd.cmd_fn

\* the UI's answers while a command typed into the tab of src runs
UiOf(src, config) == [current_tab |-> Some(src), tab_config |-> config]

Init ==
    /\ clients \in InitClients
    /\ status = "idle"
    /\ last = NoCall
    /\ tab = NoTab
    /\ tb = NoDraw

\* one call of run_cmd(cmd, src, defaults, ui, clients) that dispatches to fn
Exec(cmd, src, fn, ui, nicks) ==
    /\ status = "idle"
    /\ LET r == run_cmd(cmd, src, Defaults, ui, nicks, clients)
       IN /\ Len(r.clients) <= MaxClients
          /\ clients' = r.clients
          /\ status' = IF r.panic THEN "aborted" ELSE "returned"
          /\ last' = [fn |-> fn, cmd |-> cmd, src |-> src, clients |-> clients,
                      ops |-> r.ops, ui |-> ui, nicks |-> nicks,
                      prev |-> last.prev]
          /\ UNCHANGED <<tab, tb>>

DefaultConfig == [ignore |-> FALSE]

\* the lines of the input set that parse_cmd dispatches to fn
LinesOf(fn) == {cmd \in Lines : Dispatched(cmd) = fn}

LinesAway == LinesOf("away")

LinesClose == LinesOf("close")

LinesConnect == LinesOf("connect")

LinesJoin == LinesOf("join")

LinesMe == LinesOf("me")

LinesMsg == LinesOf("msg")

LinesNames == LinesOf("names")

LinesNick == LinesOf("nick")

LinesHelp == LinesOf("help")

LinesUnsupported == LinesOf("none")

Away ==
    /\ status = "idle"
    /\ \E cmd \in LinesAway, src \in Sources :
           Exec(cmd, src, "away", UiOf(src, DefaultConfig), <<>>)

Close ==
    /\ status = "idle"
    /\ \E cmd \in LinesClose, src \in Sources :
           Exec(cmd, src, "close", UiOf(src, DefaultConfig), <<>>)

Connect ==
    /\ status = "idle"
    /\ \E cmd \in LinesConnect, src \in Sources :
           Exec(cmd, src, "connect", UiOf(src, DefaultConfig), <<>>)

Join ==
    /\ status = "idle"
    /\ \E cmd \in LinesJoin, src \in Sources, config \in TabConfigs :
           Exec(cmd, src, "join", UiOf(src, config), <<>>)

Me ==
    /\ status = "idle"
    /\ \E cmd \in LinesMe, src \in Sources :
           Exec(cmd, src, "me", UiOf(src, DefaultConfig), <<>>)

Msg ==
    /\ status = "idle"
    /\ \E cmd \in LinesMsg, src \in Sources :
           Exec(cmd, src, "msg", UiOf(src, DefaultConfig), <<>>)

Names ==
    /\ status = "idle"
    /\ \E cmd \in LinesNames, src \in Sources, nicks \in NickLists :
           Exec(cmd, src, "names", UiOf(src, DefaultConfig), nicks)

Nick ==
    /\ status = "idle"
    /\ \E cmd \in LinesNick, src \in Sources :
           Exec(cmd, src, "nick", UiOf(src, DefaultConfig), <<>>)

Help ==
    /\ status = "idle"
    /\ \E cmd \in LinesHelp, src \in Sources :
           Exec(cmd, src, "help", UiOf(src, DefaultConfig), <<>>)

Unsupported ==
    /\ status = "idle"
    /\ \E cmd \in LinesUnsupported, src \in Sources :
           Exec(cmd, src, "none", UiOf(src, DefaultConfig), <<>>)

\* run_cmd has returned; the event loop waits for the next line
Return ==
    /\ status = "returned"
    /\ status' = "idle"
    /\ last' = NoCall
    /\ UNCHANGED <<clients, tab, tb>>

Next ==
    \/ Away
    \/ Close
    \/ Connect
    \/ Join
    \/ Me
    \/ Msg
    \/ Names
    \/ Nick
    \/ Help
    \/ Unsupported
    \/ Return

Spec == Init /\ [][Next]_vars

----------------------------------------------------------------------------
(* Sessions of /connect and /close only, in which each call knows whether   *)
(* the call before it was a /connect that added a connection.  The hosts    *)
(* connected to include one named like the reserved tab, "mentions".        *)

LinesConnectMentions ==
    {<<"c", "o", "n", "n", "e", "c", "t", " ">> \o mentions \o <<":", "1">>}

ConnectHost ==
    /\ status = "idle"
    /\ \E cmd \in LinesConnect \cup LinesConnectMentions, src \in Sources :
           Exec(cmd, src, "connect", UiOf(src, DefaultConfig), <<>>)

\* the /close lines written out, with and without a reason
LinesCloseWritten == (LinesClose \cap CuratedLines) \cup {}

CloseTab ==
    /\ status = "idle"
    /\ \E cmd \in LinesCloseWritten, src \in Sources :
           Exec(cmd, src, "close", UiOf(src, DefaultConfig), <<>>)

\* run_cmd has returned; the next call is told what this one connected
ReturnConnected ==
    /\ status = "returned"
    /\ status' = "idle"
    /\ last' = [NoCall EXCEPT !.prev = Connected(last, clients)]
    /\ UNCHANGED <<clients, tab, tb>>

RoundTripNext ==
    \/ ConnectHost
    \/ CloseTab
    \/ ReturnConnected

RoundTripSpec == Init /\ [][RoundTripNext]_vars

----------------------------------------------------------------------------
(* The tab bar: a Tab is drawn, again and again, and its style is set as    *)
(* messages arrive.  No command runs meanwhile.                             *)

TabInit ==
    /\ clients = <<>>
    /\ status = "idle"
    /\ last = NoCall
    /\ tab \in Tabs
    /\ tb = NoDraw

\* tab.draw(tb, colors, pos_x, pos_y, active)
Draw ==
    \E colors \in ColorThemes, pos_x \in Columns, pos_y \in Rows, active \in BOOLEAN :
        LET r == draw(tab, colors, pos_x, pos_y, active)
        IN /\ tab' = r.self
           /\ tb' = [drawn |-> TRUE, self |-> tab, colors |-> colors,
                     pos_x |-> pos_x, pos_y |-> pos_y, active |-> active,
                     cells |-> r.cells, end_x |-> r.pos_x, after |-> r.self]
           /\ UNCHANGED <<clients, status, last>>

\* tab.set_style(style)
SetStyle ==
    \E style \in TabStyles :
        /\ tab' = set_style(tab, style)
        /\ UNCHANGED <<clients, status, last, tb>>

TabNext ==
    \/ Draw
    \/ SetStyle

TabSpec == TabInit /\ [][TabNext]_vars

----------------------------------------------------------------------------
(* The line as the properties read it: its first whitespace-delimited word  *)
(* and what follows the whitespace run after that word.                     *)

\* s without its leading non-whitespace characters
RECURSIVE DropWord(_)
DropWord(s) ==
    IF s # <<>> /\ ~is_whitespace(s[1]) THEN DropWord(Tail(s)) ELSE s

\* the first whitespace-delimited word of the line (empty when there is none)
NameOf(line) ==
    LET t == trim_start(line) IN SubSeq(t, 1, Len(t) - Len(DropWord(t)))

\* the substring that starts right after the whitespace run following the name
TailOf(line) == trim_start(DropWord(trim_start(line)))

Registered(name) == \E i \in 1..Len(CMDS) : CMDS[i].name = name

----------------------------------------------------------------------------
(* Vocabulary of the properties.  They are stated about the state in which  *)
(* run_cmd has just run: last holds the line, the source and the Connection *)
(* Set before the call, clients the Connection Set after it.                *)

\* the Connection Set before the call
Pre == last.clients

\* the argument tail of the line that was run
ArgTail == TailOf(last.cmd)

\* the positions of the calls named op among the calls issued
OpsWhere(op) == {i \in 1..Len(last.ops) : last.ops[i].op = op}

Count(op) == Cardinality(OpsWhere(op))

\* position of the first ch in w, 0 when there is none
FirstPos(w, ch) ==
    IF \E k \in 1..Len(w) : w[k] = ch
    THEN CHOOSE k \in 1..Len(w) : w[k] = ch /\ \A j \in 1..(k - 1) : w[j] # ch
    ELSE 0

\* host and port text of host:port
HostOf(w) == SubSeq(w, 1, FirstPos(w, ":") - 1)

PortOf(w) == SubSeq(w, FirstPos(w, ":") + 1, Len(w))

\* value of a string of decimal digits
RECURSIVE DecVal(_)
DecVal(d) ==
    IF d = <<>> THEN 0
    ELSE 10 * DecVal(SubSeq(d, 1, Len(d) - 1))
         + (CHOOSE v \in 0..9 : Digits[v + 1] = d[Len(d)])

\* the digits of a port text (an optional leading + dropped)
PortDigits(t) == IF t # <<>> /\ t[1] = "+" THEN Tail(t) ELSE t

\* a valid port number: decimal digits with an optional +, at most 65535
IsPort(t) ==
    /\ PortDigits(t) # <<>>
    /\ \A k \in 1..Len(PortDigits(t)) : \E v \in 1..10 : Digits[v] = PortDigits(t)[k]
    /\ DecVal(PortDigits(t)) <= 65535

\* the words of /connect's tail
ConnectWords == split_whitespace(ArgTail)

\* /connect with one or two arguments, the first a well-formed host:port
ConnectsTo(host) ==
    /\ last.fn = "connect"
    /\ Len(ConnectWords) \in {1, 2}
    /\ FirstPos(ConnectWords[1], ":") > 0
    /\ HostOf(ConnectWords[1]) = host
    /\ IsPort(PortOf(ConnectWords[1]))

HasConnection(cs, serv) == \E i \in 1..Len(cs) : cs[i].serv = serv

----------------------------------------------------------------------------
(* C1: /close from a Server source s other than "mentions", when the       *)
(* Connection Set holds a connection for s: the server tab of s is closed, *)
(* exactly the first connection named s is removed (the others stay, in    *)
(* order), and exactly one disconnect (quit) is issued on the removed      *)
(* handle, with the argument tail as reason when it is non-empty and no    *)
(* reason otherwise.                                                       *)

CloseFromServer ==
    /\ last.fn = "close"
    /\ last.src.kind = "Serv"
    /\ last.src.serv # mentions
    /\ HasConnection(Pre, last.src.serv)

C1_CloseServerRemovesFirst ==
    CloseFromServer =>
        LET s == last.src.serv
            i == CHOOSE i \in 1..Len(Pre) :
                     Pre[i].serv = s /\ \A j \in 1..(i - 1) : Pre[j].serv # s
            reason == IF ArgTail = <<>> THEN None ELSE Some(ArgTail)
        IN /\ status = "returned"
           /\ clients = [k \in 1..(Len(Pre) - 1) |-> IF k < i THEN Pre[k] ELSE Pre[k + 1]]
           /\ Count("close_server_tab") = 1
           /\ \A k \in OpsWhere("close_server_tab") : last.ops[k].target = Serv(s)
           /\ Count("quit") = 1
           /\ \A k \in OpsWhere("quit") :
                  last.ops[k].id = Pre[i].id /\ last.ops[k].args = <<reason>>

\* /close bye on a server that has two connections, with a reason
C1_Witness ==
    /\ CloseFromServer
    /\ ArgTail # <<>>
    /\ Cardinality({i \in 1..Len(Pre) : Pre[i].serv = last.src.serv}) = 2
    /\ Len(clients) = 1

(* C2: /connect with one or two arguments, the first a well-formed         *)
(* host:port whose host has no connection: exactly one server tab is       *)
(* opened for the host, "Connecting..." is posted to that server target,   *)
(* exactly one new handle for the host is appended at the end of the       *)
(* Connection Set, exactly one pump task is spawned for it, and the tab is *)
(* opened before the connection is appended.                               *)

ConnectNewHost(host) == ConnectsTo(host) /\ ~HasConnection(Pre, host)

C2_ConnectNewHost ==
    \A host \in Hosts :
        ConnectNewHost(host) =>
            /\ status = "returned"
            /\ Len(clients) = Len(Pre) + 1
            /\ SubSeq(clients, 1, Len(Pre)) = Pre
            /\ clients[Len(clients)].serv = host
            /\ \A i \in 1..Len(Pre) : Pre[i].id # clients[Len(clients)].id
            /\ Count("new_server_tab") = 1
            /\ \A k \in OpsWhere("new_server_tab") : last.ops[k].target = Serv(host)
            /\ Cardinality({k \in OpsWhere("add_client_msg") :
                               /\ last.ops[k].fmt = "Connecting..."
                               /\ last.ops[k].target = Server(host)}) = 1
            /\ Count("Client::new") = 1
            /\ Count("spawn_local") = 1
            /\ \A k \in OpsWhere("spawn_local") :
                   last.ops[k].id = clients[Len(clients)].id
            /\ Count("clients.push") = 1
            /\ \A t \in OpsWhere("new_server_tab"), q \in OpsWhere("clients.push") : t < q

\* /connect b:... with a password, appended behind an existing connection
C2_Witness ==
    /\ ConnectNewHost(HostB)
    /\ Len(ConnectWords) = 2
    /\ Len(Pre) = 1
    /\ Len(clients) = 2

(* C3: /connect host:port (with or without password) whose host has a      *)
(* connection: no tab is opened, no connection is added or removed, no     *)
(* pump task is spawned, the existing connection receives exactly one      *)
(* reconnect carrying the new port, and "Connecting..." is posted to all   *)
(* tabs of that server.                                                    *)

ConnectKnownHost(host) == ConnectsTo(host) /\ HasConnection(Pre, host)

C3_ConnectKnownHost ==
    \A host \in Hosts :
        ConnectKnownHost(host) =>
            /\ status = "returned"
            /\ clients = Pre
            /\ Count("new_server_tab") = 0
            /\ Count("Client::new") = 0
            /\ Count("spawn_local") = 0
            /\ Count("clients.push") = 0
            /\ Count("reconnect") = 1
            /\ \A k \in OpsWhere("reconnect") :
                   /\ \E i \in 1..Len(Pre) :
                          Pre[i].serv = host /\ Pre[i].id = last.ops[k].id
                   /\ last.ops[k].args
                          = <<Some(DecVal(PortDigits(PortOf(ConnectWords[1]))))>>
            /\ Cardinality({k \in OpsWhere("add_client_msg") :
                               /\ last.ops[k].fmt = "Connecting..."
                               /\ last.ops[k].target = AllServTabs(host)}) = 1
            /\ Len(last.ops) = 2

\* /connect a:6697 pw while a connection for a exists
C3_Witness ==
    /\ ConnectKnownHost(HostA)
    /\ Len(ConnectWords) = 2
    /\ DecVal(PortDigits(PortOf(ConnectWords[1]))) = 6697

----------------------------------------------------------------------------
(* C4: for every line whose first whitespace-delimited word is a           *)
(* registered name, parse_cmd returns that command's descriptor and the    *)
(* tail that starts right after the first whitespace run following the     *)
(* name, character for character; the tail is empty when nothing follows,  *)
(* and a line without whitespace is its own name with an empty tail.       *)

C4_ParseCmdTail ==
    (last.fn # "" /\ Registered(NameOf(last.cmd))) =>
        LET p == parse_cmd(last.cmd)
        IN /\ ~p.panic
           /\ p.res # None
           /\ p.res[1].cmd.name = NameOf(last.cmd)
           /\ p.res[1].cmd.cmd_fn = last.fn
           /\ p.res[1].args = TailOf(last.cmd)
           /\ (\A k \in 1..Len(last.cmd) : ~is_whitespace(last.cmd[k]))
                  => (p.res[1].cmd.name = last.cmd /\ p.res[1].args = <<>>)
           \* the tail is what the handler works on: /me sends it as it is
           /\ (last.fn = "me" /\ TailOf(last.cmd) # <<>>)
                  => last.ops = <<send_msg(last.src, TailOf(last.cmd), TRUE)>>

\* a tail with a doubled space inside and a space at its end, sent by /me
C4_Witness ==
    /\ last.fn = "me"
    /\ Len(last.ops) = 1
    /\ last.ops[1].op = "send_msg"
    /\ LET t == last.ops[1].args[1]
       IN /\ Len(t) >= 4
          /\ ~is_whitespace(t[1])
          /\ is_whitespace(t[Len(t)])
          /\ \E k \in 1..(Len(t) - 2) :
                 is_whitespace(t[k]) /\ is_whitespace(t[k + 1]) /\ ~is_whitespace(t[k + 2])

(* C5: split_msg_args returns None when the tail is empty, when its first  *)
(* character is not a valid nick-leading character, or when no whitespace  *)
(* follows the first character; otherwise (target, message) with target    *)
(* the text before the first whitespace character and message the          *)
(* remainder after the first whitespace run, so that the message never     *)
(* begins with whitespace; /msg sends only when the message is non-empty   *)
(* and otherwise posts the usage error and sends nothing.                  *)

MsgUsageError ==
    <<add_client_err_msg("Usage: {}", <<MSG_CMD.usage>>, CurrentTab)>>

C5_SplitMsgArgs ==
    last.fn = "msg" =>
        LET args == ArgTail
            sp == split_msg_args(args)
            ws == {k \in 2..Len(args) : is_whitespace(args[k])}
            k1 == CHOOSE k \in ws : \A j \in ws : k <= j
            target == SubSeq(args, 1, k1 - 1)
            message == trim_start(SubSeq(args, k1, Len(args)))
        IN /\ ~sp.panic
           /\ IF args = <<>> \/ ~is_nick_first_char(args[1]) \/ ws = {}
              THEN sp.res = None /\ last.ops = MsgUsageError
              ELSE /\ sp.res = Some(<<target, message>>)
                   /\ message # <<>> => Count("send_msg") = 1
                   /\ message = <<>> => last.ops = MsgUsageError

(* C6: for every well-formed /msg <token> <text>: when the token is the    *)
(* server name of some connection, the message goes to Server{token},      *)
(* whatever the current source is; otherwise to User{server of the current *)
(* source, nick = token}.  Exactly one send is made, not emote-flagged.    *)

\* /msg whose tail split_msg_args splits into a token and a non-empty text
WellFormedMsg ==
    /\ last.fn = "msg"
    /\ ~split_msg_args(ArgTail).panic
    /\ split_msg_args(ArgTail).res # None
    /\ split_msg_args(ArgTail).res[1][2] # <<>>

C6_MsgRouting ==
    WellFormedMsg =>
        LET token == NameOf(ArgTail)
        IN /\ status = "returned"
           /\ clients = Pre
           /\ Len(last.ops) = 1
           /\ last.ops[1].op = "send_msg"
           /\ last.ops[1].args[2] = FALSE
           /\ last.ops[1].target = IF HasConnection(Pre, token)
                                   THEN Serv(token)
                                   ELSE User(last.src.serv, token)

\* /msg a ... typed in a channel tab of server b while a is connected
C6_Witness ==
    /\ WellFormedMsg
    /\ last.src.kind = "Chan"
    /\ last.src.serv = HostB
    /\ last.ops[1].target = Serv(HostA)

\* /msg n ... : a User target on the server of the current source
C6_WitnessUser ==
    /\ WellFormedMsg
    /\ last.src.serv = HostB
    /\ last.ops[1].target = User(HostB, <<"n">>)

(* C7: for every command line, every source and every Connection Set,      *)
(* run_cmd runs to completion: no invocation aborts the process.           *)

C7_RunsToCompletion == status # "aborted"

(* C8: for every /close from a Channel or User source the Connection Set   *)
(* is unchanged and no disconnect is issued; from a Channel source the     *)
(* channel's tab is closed and exactly one part for that channel (with the *)
(* tail as reason when non-empty) is issued on the connection of that      *)
(* server; from a User source only the user tab is closed and no           *)
(* connection operation is issued.                                         *)

C8_CloseChanUser ==
    (last.fn = "close" /\ last.src.kind \in {"Chan", "User"}) =>
        LET reason == IF ArgTail = <<>> THEN None ELSE Some(ArgTail)
        IN /\ clients = Pre
           /\ Count("quit") = 0
           /\ last.src.kind = "Chan" =>
                  /\ Count("close_chan_tab") = 1
                  /\ \A k \in OpsWhere("close_chan_tab") : last.ops[k].target = last.src
                  /\ Count("part") = 1
                  /\ \A k \in OpsWhere("part") :
                         /\ last.ops[k].args = <<last.src.name, reason>>
                         /\ \E i \in 1..Len(Pre) :
                                /\ Pre[i].serv = last.src.serv
                                /\ Pre[i].id = last.ops[k].id
                  /\ Len(last.ops) = 2
           /\ last.src.kind = "User" =>
                  last.ops = <<UiCall("close_user_tab", last.src, "", <<>>)>>

(* C9: for every /connect whose first argument has no colon, or whose port *)
(* part is not a valid port number, or that has more than two arguments:   *)
(* exactly one error message is posted to the current tab (a parse error   *)
(* for the malformed address, the usage string for the wrong argument      *)
(* count) and no tab is opened, no connection is added or removed, no      *)
(* reconnect is issued and no pump task is spawned.                        *)

ConnectTooMany == last.fn = "connect" /\ Len(ConnectWords) > 2

ConnectNoColon ==
    /\ last.fn = "connect"
    /\ Len(ConnectWords) \in {1, 2}
    /\ FirstPos(ConnectWords[1], ":") = 0

ConnectBadPort ==
    /\ last.fn = "connect"
    /\ Len(ConnectWords) \in {1, 2}
    /\ FirstPos(ConnectWords[1], ":") > 0
    /\ ~IsPort(PortOf(ConnectWords[1]))

C9_ConnectErrors ==
    (ConnectTooMany \/ ConnectNoColon \/ ConnectBadPort) =>
        /\ status = "returned"
        /\ clients = Pre
        /\ Len(last.ops) = 1
        /\ last.ops[1].op = "add_client_err_msg"
        /\ last.ops[1].target = CurrentTab
        /\ ConnectTooMany =>
               /\ last.ops[1].fmt = "Usage: {}"
               /\ last.ops[1].args = <<CONNECT_CMD.usage>>
        /\ ConnectNoColon => last.ops[1].fmt = "connect: Need a <host>:<port>"
        /\ ConnectBadPort =>
               /\ last.ops[1].fmt = "connect: Can't parse port {serv_port}: {err}"
               /\ last.ops[1].args[1] = PortOf(ConnectWords[1])

\* three arguments, the first a well-formed address of a host not connected
C9_Witness ==
    /\ ConnectTooMany
    /\ FirstPos(ConnectWords[1], ":") > 0
    /\ IsPort(PortOf(ConnectWords[1]))
    /\ ~HasConnection(Pre, HostOf(ConnectWords[1]))
    /\ Len(last.ops) = 1

\* a port one above the largest port number
C9_WitnessBadPort ==
    /\ ConnectBadPort
    /\ PortOf(ConnectWords[1]) = <<"6", "5", "5", "3", "6">>
    /\ Len(last.ops) = 1

(* C10 as stated: for every line whose command name is not in the Registry, *)
(* run_cmd posts the error Unsupported command: "/<name>" to the current    *)
(* tab, <name> being exactly the command name, without the argument tail.   *)

UnknownName ==
    /\ last.fn = "none"
    /\ NameOf(last.cmd) # <<>>
    /\ ~Registered(NameOf(last.cmd))

C10_UnsupportedNamesCommand ==
    UnknownName =>
        last.ops = <<add_client_err_msg("Unsupported command: \"/{cmd}\"",
                                        <<NameOf(last.cmd)>>, CurrentTab)>>

(* C10 amended: the error message carries the whole input line as it was    *)
(* given to run_cmd, name and argument tail with their spacing; it is the   *)
(* only call issued and the Connection Set is unchanged.                    *)

C10_UnsupportedEchoesLine ==
    UnknownName =>
        /\ status = "returned"
        /\ clients = Pre
        /\ last.ops = <<add_client_err_msg("Unsupported command: \"/{cmd}\"",
                                           <<last.cmd>>, CurrentTab)>>

\* an unknown name followed by arguments
C10_Witness ==
    /\ UnknownName
    /\ TailOf(last.cmd) # <<>>
    /\ Len(last.ops) = 1
    /\ last.ops[1].args = <<last.cmd>>

(* C11 as stated: parsing an empty or whitespace-only line gives a "no      *)
(* command" outcome that differs from the "not found" outcome of every line *)
(* whose first word is not a registered name.                               *)

BlankLine ==
    /\ last.fn = "none"
    /\ NameOf(last.cmd) = <<>>

\* the lines whose first word is not a registered name
UnknownLines == {u \in Lines : NameOf(u) # <<>> /\ ~Registered(NameOf(u))}

C11_BlankDistinctFromUnknown ==
    BlankLine => \A u \in UnknownLines : parse_cmd(last.cmd) # parse_cmd(u)

(* C11 amended: parse_cmd answers None for an empty or whitespace-only      *)
(* line, the very outcome it gives for a line whose first word is not       *)
(* registered, and run_cmd reports both alike: one Unsupported command      *)
(* error carrying the line, the Connection Set unchanged.                   *)

C11_BlankParsesAsUnknown ==
    BlankLine =>
        /\ parse_cmd(last.cmd) = [panic |-> FALSE, res |-> None]
        /\ \A u \in UnknownLines : parse_cmd(u) = parse_cmd(last.cmd)
        /\ status = "returned"
        /\ clients = Pre
        /\ last.ops = <<add_client_err_msg("Unsupported command: \"/{cmd}\"",
                                           <<last.cmd>>, CurrentTab)>>

\* a line of whitespace only, run while connections exist
C11_Witness ==
    /\ BlankLine
    /\ last.cmd # <<>>
    /\ Pre # <<>>
    /\ Len(last.ops) = 1

(* C12: the Connection Set changes, in membership or order, only when      *)
(* /connect creates a connection for a new host (one Client appended) and   *)
(* when /close runs from a Server source (one Client removed); every other  *)
(* invocation, the ones ending in an error or a panic included, leaves it   *)
(* as it was.  /help and a line that is no command call nothing but the     *)
(* message functions on the current tab: no tab is opened, closed or        *)
(* reconfigured.                                                            *)

\* one Client for a host without connection was pushed
Appended ==
    /\ Len(clients) = Len(Pre) + 1
    /\ SubSeq(clients, 1, Len(Pre)) = Pre
    /\ ~HasConnection(Pre, clients[Len(clients)].serv)

\* one Client was removed, the others keep their order
Removed == \E i \in 1..Len(Pre) : clients = RemoveAt(Pre, i)

C12_ConnectionSetFrame ==
    last.fn # "" =>
        /\ clients # Pre =>
               \/ last.fn = "connect" /\ Appended
               \/ last.fn = "close" /\ last.src.kind = "Serv" /\ Removed
        /\ last.fn \in {"help", "none"} =>
               /\ clients = Pre
               /\ \A k \in 1..Len(last.ops) :
                      /\ last.ops[k].op \in {"add_client_msg", "add_client_err_msg"}
                      /\ last.ops[k].target = CurrentTab

\* a reconnect of the first of two connections: nothing moves
C12_Witness ==
    /\ last.fn = "connect"
    /\ Len(Pre) = 2
    /\ Pre[1].serv # Pre[2].serv
    /\ Count("reconnect") = 1
    /\ \A k \in OpsWhere("reconnect") : last.ops[k].id = Pre[1].id
    /\ clients = Pre

\* /help with two connections
C12_WitnessHelp ==
    /\ last.fn = "help"
    /\ Len(Pre) = 2
    /\ Len(last.ops) = 10
    /\ clients = Pre

(* C13: /join that resolves no channel from its arguments.  On a channel    *)
(* tab the one join target is the tab's channel with the configuration      *)
(* stored for it: with a connection, that stored configuration is           *)
(* registered for the channel's tab and then the join of that one channel   *)
(* is issued.  On a server tab or a user tab the usage error is posted and  *)
(* neither a configuration is registered nor a join issued.                 *)

\* the channels /join resolves from its argument tail
JoinResolved ==
    LET e == split(ArgTail, ",")
    IN FilterOk([i \in 1..Len(e) |-> from_cmd_args(trim(e[i]))])

\* /join that resolves no channel, run on a tab of a server
JoinNoChannel ==
    /\ last.fn = "join"
    /\ JoinResolved = <<>>
    /\ last.src # Serv(mentions)

\* the first connection of the source's server
SrcClient ==
    CHOOSE i \in 1..Len(Pre) :
        Pre[i].serv = last.src.serv /\ \A j \in 1..(i - 1) : Pre[j].serv # last.src.serv

C13_RejoinStoredConfig ==
    JoinNoChannel =>
        /\ status = "returned"
        /\ clients = Pre
        /\ last.src.kind = "Chan" /\ HasConnection(Pre, last.src.serv) =>
               LET n == Len(last.ops)
               IN /\ n >= 2
                  /\ last.ops[n - 1] =
                         UiCall("set_tab_config", Chan(last.src.serv, last.src.name),
                                "", <<last.ui.tab_config>>)
                  /\ last.ops[n] =
                         ClientCall("join", Pre[SrcClient].id, <<<<last.src.name>>>>)
                  /\ Count("set_tab_config") = 1
                  /\ Count("join") = 1
        /\ last.src.kind \in {"Serv", "User"} =>
               /\ last.ops # <<>>
               /\ last.ops[Len(last.ops)] =
                      add_client_err_msg("Usage: {}", <<JOIN_CMD.usage>>, CurrentTab)
               /\ Count("set_tab_config") = 0
               /\ Count("join") = 0

\* a rejoin on a channel tab whose stored configuration is not the default
C13_Witness ==
    /\ JoinNoChannel
    /\ last.src.kind = "Chan"
    /\ HasConnection(Pre, last.src.serv)
    /\ last.ui.tab_config = [ignore |-> TRUE]
    /\ Count("join") = 1

\* /join without channel on a user tab
C13_WitnessUsage ==
    /\ JoinNoChannel
    /\ last.src.kind = "User"
    /\ HasConnection(Pre, last.src.serv)
    /\ Count("add_client_err_msg") >= 1

(* C14 as stated: in every /join a tab configuration is registered only if  *)
(* the join is issued, and before it.  With a connection for the source's   *)
(* server the configuration of every target channel is set and then exactly *)
(* one join with exactly those channels is issued; without one the error    *)
(* Can't join: Not connected to server ... is posted and neither is done;   *)
(* from the "mentions" source one error is posted and nothing else.         *)

\* the names of the channels /join is to join: the ones given, else the
\* channel of the tab
JoinTargets ==
    IF JoinResolved # <<>>
    THEN [i \in 1..Len(JoinResolved) |-> JoinResolved[i].name]
    ELSE IF last.src.kind = "Chan" THEN <<last.src.name>> ELSE <<>>

\* every registration comes before the one join, and none without it
RegisteredOnlyBeforeJoin ==
    /\ Count("join") <= 1
    /\ Count("set_tab_config") > 0 => Count("join") = 1
    /\ \A i \in OpsWhere("set_tab_config"), j \in OpsWhere("join") : i < j

\* the targets are registered in order, then joined in one call
RegistersThenJoins ==
    LET n == Len(last.ops)
        t == Len(JoinTargets)
    IN /\ n >= t + 1
       /\ \A i \in 1..t :
              /\ last.ops[n - t - 1 + i].op = "set_tab_config"
              /\ last.ops[n - t - 1 + i].target = Chan(last.src.serv, JoinTargets[i])
       /\ Count("set_tab_config") = t
       /\ last.ops[n] = ClientCall("join", Pre[SrcClient].id, <<JoinTargets>>)
       /\ Count("join") = 1

\* the missing connection is reported, nothing is registered or joined
ReportsNotConnected ==
    /\ last.ops # <<>>
    /\ last.ops[Len(last.ops)] =
           add_client_err_msg("Can't join: Not connected to server {}",
                              <<last.src.serv>>, CurrentTab)
    /\ Count("set_tab_config") = 0
    /\ Count("join") = 0

JoinOnMentions ==
    last.ops = <<add_client_err_msg("Switch to a server tab to join a channel",
                                    <<>>, CurrentTab)>>

C14_JoinEveryInvocation ==
    last.fn = "join" =>
        /\ RegisteredOnlyBeforeJoin
        /\ IF last.src = Serv(mentions) THEN JoinOnMentions
           ELSE IF HasConnection(Pre, last.src.serv) THEN RegistersThenJoins
           ELSE ReportsNotConnected

(* C14 amended: the same, for the invocations that have a target channel    *)
(* (one given in the arguments, or the channel of the tab when none is      *)
(* given).  An invocation without target, on a server or user tab, posts    *)
(* the usage error whether or not a connection exists; it registers nothing *)
(* and joins nothing.                                                       *)

C14_JoinRegistersBeforeJoin ==
    last.fn = "join" =>
        /\ status = "returned"
        /\ clients = Pre
        /\ RegisteredOnlyBeforeJoin
        /\ IF last.src = Serv(mentions) THEN JoinOnMentions
           ELSE IF JoinTargets = <<>>
           THEN /\ last.ops # <<>>
                /\ last.ops[Len(last.ops)] =
                       add_client_err_msg("Usage: {}", <<JOIN_CMD.usage>>, CurrentTab)
                /\ Count("set_tab_config") = 0
                /\ Count("join") = 0
           ELSE IF HasConnection(Pre, last.src.serv) THEN RegistersThenJoins
           ELSE ReportsNotConnected

\* two channels joined from a server tab that has a connection
C14_Witness ==
    /\ last.fn = "join"
    /\ Len(JoinTargets) = 2
    /\ last.src.kind = "Serv"
    /\ HasConnection(Pre, last.src.serv)
    /\ Count("set_tab_config") = 2
    /\ Count("join") = 1

\* a channel given while the server has no connection
C14_WitnessNotConnected ==
    /\ last.fn = "join"
    /\ JoinResolved # <<>>
    /\ last.src # Serv(mentions)
    /\ ~HasConnection(Pre, last.src.serv)
    /\ Pre # <<>>
    /\ Len(last.ops) = 1

(* C15: /names run on a source that is not a channel (a server or a user    *)
(* source), whatever the Connection Set holds: the error                    *)
(* /names only supported in chan tabs is posted to the current tab and no   *)
(* member list is reported.                                                 *)

NamesOffChannel ==
    /\ last.fn = "names"
    /\ last.src.kind \in {"Serv", "User"}

C15_NamesWrongSource ==
    NamesOffChannel =>
        /\ status = "returned"
        /\ last.ops = <<add_client_err_msg("/names only supported in chan tabs",
                                           <<>>, CurrentTab)>>

(* C16: when the Connection Set holds no connection for the server of the   *)
(* source, /away (whatever its tail), /nick with exactly one word and       *)
(* /names from a channel source post nothing and call no connection, while  *)
(* /join with a channel to join posts an error.  /nick with no word or with *)
(* more than one posts the usage error, with or without a connection.       *)

NotConnected == last.fn # "" /\ ~HasConnection(Pre, last.src.serv)

NickWords == split_whitespace(ArgTail)

\* the commands that do nothing without a connection
SilentWithoutConnection ==
    /\ NotConnected
    /\ \/ last.fn = "away"
       \/ last.fn = "nick" /\ Len(NickWords) = 1
       \/ last.fn = "names" /\ last.src.kind = "Chan"

C16_NoConnection ==
    /\ SilentWithoutConnection =>
           /\ status = "returned"
           /\ last.ops = <<>>
           /\ clients = Pre
    /\ NotConnected /\ last.fn = "join" /\ JoinResolved # <<>> =>
           /\ status = "returned"
           /\ last.ops # <<>>
           /\ last.ops[Len(last.ops)].op = "add_client_err_msg"
           /\ last.ops[Len(last.ops)].target = CurrentTab
           /\ \A k \in 1..Len(last.ops) : last.ops[k].op = "add_client_err_msg"
    /\ last.fn = "nick" /\ Len(NickWords) # 1 =>
           /\ status = "returned"
           /\ last.ops = <<add_client_err_msg("Usage: {}", <<NICK_CMD.usage>>,
                                              CurrentTab)>>

\* /nick with two words on a server that has no connection, others have
C16_Witness ==
    /\ NotConnected
    /\ Pre # <<>>
    /\ last.fn = "nick"
    /\ Len(NickWords) = 2
    /\ Len(last.ops) = 1

\* /away with a tail, silently dropped
C16_WitnessSilent ==
    /\ SilentWithoutConnection
    /\ Pre # <<>>
    /\ last.fn = "away"
    /\ ArgTail # <<>>
    /\ last.ops = <<>>

(* C17: Tab::draw writes the label left to right, one cell per display      *)
(* column: the offset it advances over the whole label is the display width *)
(* Tab::width returns (the sum of the column widths of the characters), so  *)
(* a tab drawn at x occupies exactly the columns x .. x + width() - 1.      *)

C17_DrawAdvancesByWidth ==
    tb.drawn =>
        /\ tb.end_x - tb.pos_x = width(tb.self)
        /\ {tb.cells[k].x : k \in 1..Len(tb.cells)}
               = tb.pos_x .. (tb.pos_x + width(tb.self) - 1)

(* C18: Tab::draw adds the underline attribute to one cell only, the first  *)
(* occurrence of the shortcut character in the label (compared case         *)
(* sensitively), and to none when the tab has no shortcut or the label does *)
(* not hold the character.  Every cell is written in the active style when  *)
(* the tab is drawn active, whatever its stored style, and in the style     *)
(* tab_style maps the stored style to otherwise.  The Tab is the same       *)
(* before and after the call.                                               *)

\* the style the drawn tab is to be painted in
DrawnStyle ==
    IF tb.active THEN tb.colors.tab_active
    ELSE CASE tb.self.style = "Normal" -> tb.colors.tab_normal
           [] tb.self.style = "JoinOrPart" -> tb.colors.tab_joinpart
           [] tb.self.style = "NewMsg" -> tb.colors.tab_new_msg
           [] tb.self.style = "Highlight" -> tb.colors.tab_highlight

\* position in the label of the first occurrence of the shortcut, 0 if none
ShortcutPos ==
    IF tb.self.switch = None THEN 0
    ELSE FirstPos(tb.self.visible_name, tb.self.switch[1])

C18_DrawUnderlinesFirstShortcut ==
    tb.drawn =>
        /\ Len(tb.cells) = Len(tb.self.visible_name)
        /\ \A k \in 1..Len(tb.cells) :
               /\ tb.cells[k].ch = tb.self.visible_name[k]
               /\ tb.cells[k].y = tb.pos_y
               /\ tb.cells[k].bg = DrawnStyle.bg
               /\ tb.cells[k].fg =
                      IF k = ShortcutPos
                      THEN [DrawnStyle.fg EXCEPT !.attrs = @ \cup {TB_UNDERLINE}]
                      ELSE DrawnStyle.fg
        /\ tb.after = tb.self

\* an inactive highlighted tab whose label holds the shortcut twice, after
\* its other-case twin
C18_Witness ==
    /\ tb.drawn
    /\ ~tb.active
    /\ tb.self.style = "Highlight"
    /\ tb.self.visible_name = <<"A", "a", "a">>
    /\ tb.self.switch = Some("a")
    /\ ShortcutPos = 2
    /\ TB_UNDERLINE \in tb.cells[2].fg.attrs
    /\ TB_UNDERLINE \notin tb.cells[3].fg.attrs

\* an active tab without shortcut
C18_WitnessActive ==
    /\ tb.drawn
    /\ tb.active
    /\ tb.self.style = "NewMsg"
    /\ tb.self.switch = None
    /\ Len(tb.cells) = 3
    /\ \A k \in 1..3 : tb.cells[k].fg = tb.colors.tab_active.fg

(* C19: over any sequence of commands, a Connection Set whose server names  *)
(* are pairwise distinct keeps them pairwise distinct after every command;  *)
(* /connect never appends a connection for a host that has one already,     *)
(* whatever port and password it is given.                                  *)

\* no two connections of cs have the same server name
DistinctServers(cs) ==
    \A i, j \in 1..Len(cs) : cs[i].serv = cs[j].serv => i = j

C19_DistinctServersKept ==
    [][/\ DistinctServers(clients) => DistinctServers(clients')
       /\ Len(clients') > Len(clients) =>
              ~HasConnection(clients, clients'[Len(clients')].serv)]_vars

\* /connect host:port password for a host that is one of two distinct
\* connections: the connection is reconnected, none is appended
C19_Witness ==
    /\ last.fn = "connect"
    /\ Len(ConnectWords) = 2
    /\ Len(Pre) = 2
    /\ DistinctServers(Pre)
    /\ ConnectsTo(Pre[2].serv)
    /\ Count("reconnect") = 1
    /\ clients = Pre

(* C20 as stated: for every host h without connection and every valid port *)
(* p, /connect h:p followed by /close from the source Serv{h} leaves the    *)
(* Connection Set exactly as it was before the /connect, contents and       *)
(* order, and closes the server tab that was opened for h.                  *)

\* /close from the server tab of the host that the command before connected
CloseAfterConnect ==
    /\ last.prev # None
    /\ last.fn = "close"
    /\ last.src = Serv(last.prev[1].host)

\* the Connection Set is the one before the /connect and the tab is closed
Restored ==
    /\ status = "returned"
    /\ clients = last.prev[1].before
    /\ Count("close_server_tab") = 1
    /\ \A k \in OpsWhere("close_server_tab") :
           last.ops[k].target = Serv(last.prev[1].host)
    /\ Count("quit") = 1

C20_ConnectCloseRoundTrip == CloseAfterConnect => Restored

(* What the code does: the round trip holds for every host but one.  For a  *)
(* host named "mentions" /close from Serv{mentions} is taken for the        *)
(* reserved tab and does nothing: the connection that /connect added stays  *)
(* in the Connection Set and no tab is closed.                              *)

C20_RoundTripButMentions ==
    CloseAfterConnect =>
        IF last.prev[1].host # mentions THEN Restored
        ELSE /\ status = "returned"
             /\ clients = Pre
             /\ HasConnection(clients, mentions)
             /\ last.ops = <<>>

\* a second connection added and removed again
C20_Witness ==
    /\ CloseAfterConnect
    /\ last.prev[1].host # mentions
    /\ Len(last.prev[1].before) = 1
    /\ Len(Pre) = 2
    /\ clients = last.prev[1].before

\* /connect mentions:1, then /close on the mentions tab
C20_WitnessMentions ==
    /\ CloseAfterConnect
    /\ last.prev[1].host = mentions
    /\ Len(clients) = Len(last.prev[1].before) + 1

============================================================================
